---- MODULE Spec2Model ----
(***************************************************************************)
(* Planar Maximally Filtered Graph construction, as built by the programs  *)
(* of the repository: create_pmfg (teste.c), createPMFG (teste.cpp),       *)
(* PMFGGenerator::createPMFG (teste3.cpp), create_pmfg_spqr_only and       *)
(* create_pmfg_incremental (part_000) and the main of part_001; with the   *)
(* readers that feed them (read_csv_matrix of part_002, loadEdges of       *)
(* teste3.cpp), the edge-list export and statistics of tmfg_script.R and   *)
(* the M-tilde computation of FORMULA_DOCUMENTATION.md.                    *)
(*                                                                         *)
(* One run of the model is one run of one program on one input matrix.     *)
(* The graph is the sequence of edges in insertion order, each edge the    *)
(* pair <<source, target>>; the OGDF planarity queries are modelled by an  *)
(* exact planarity test (Wagner's theorem: no K5 and no K3,3 minor).       *)
(***************************************************************************)
EXTENDS Integers, Sequences, FiniteSets, TLC

\* ------------------------------------------------------------------ bounds
\* Largest number of nodes of an input.
MaxN == 6
\* Input matrices are drawn from a family indexed by 0..MaxSeed.
MaxSeed == 5
\* Weights of the generated matrices lie in 0..WMod-1.
WMod == 61
\* Rows of the edge-list file that may be repeated at its end.
MaxDup == 1
\* Largest number of nodes when the program is run twice.
MaxNTwoRuns == 5

\* ------------------------------------------------------- program constants
\* part_001: "min(maxEdges * 10, 100000)" and the 5 preloaded edges.
BufferFactor == 10
BufferCap == 100000
PreloadCount == 5

\* ------------------------------------------------------- graphs, planarity
Nodes(nn) == 0 .. (nn - 1)

\* ogdf::Graph::newEdge: appends an edge, parallel edges and loops allowed.
newEdge(g, u, v) == Append(g, <<u, v>>)

\* ogdf::Graph::delEdge of the edge at position x.
delEdge(g, x) == [y \in 1 .. (Len(g) - 1) |-> IF y < x THEN g[y] ELSE g[y + 1]]

numberOfEdges(g) == Len(g)

\* The scan "for (edge e : graph.edges)" that looks for (u,v) or (v,u).
edgeExists(g, u, v) ==
    \E x \in DOMAIN g : \/ (g[x][1] = u /\ g[x][2] = v)
                        \/ (g[x][1] = v /\ g[x][2] = u)

\* The underlying simple graph: unordered pairs, loops dropped.
SimpleEdges(g) == {{g[x][1], g[x][2]} : x \in {y \in DOMAIN g : g[y][1] # g[y][2]}}

HasK5(V, E) ==
    \E S \in SUBSET V :
        /\ Cardinality(S) = 5
        /\ \A a \in S : \A b \in S : a # b => {a, b} \in E

HasK33(V, E) ==
    \E A \in SUBSET V :
        /\ Cardinality(A) = 3
        /\ \E B \in SUBSET (V \ A) :
              /\ Cardinality(B) = 3
              /\ \A a \in A : \A b \in B : {a, b} \in E

\* Contraction of the edge {u, v}: v is merged into u.
ContractNodes(V, u, v) == V \ {v}

ContractEdges(E, u, v) ==
    {f \in {{(IF x = v THEN u ELSE x) : x \in e} : e \in E} : Cardinality(f) = 2}

RECURSIVE HasKuratowskiMinor(_, _)
HasKuratowskiMinor(V, E) ==
    IF Cardinality(V) < 5 \/ Cardinality(E) < 9
    THEN FALSE
    ELSE \/ HasK5(V, E)
         \/ HasK33(V, E)
         \/ \E e \in E :
              \E u \in e : \E v \in e :
                  /\ u < v
                  /\ \E W \in {ContractNodes(V, u, v)} :
                        \E F \in {ContractEdges(E, u, v)} :
                            HasKuratowskiMinor(W, F)

\* ogdf::isPlanar(G)
isPlanar(nn, g) ==
    \A E \in {SimpleEdges(g)} : ~HasKuratowskiMinor(Nodes(nn), E)

\* A planarity query that accepts every edge.
supportEdgeAlways(nn, g, u, v) == TRUE

\* DynamicPlanarSPQRTree::supportEdge(u, v): can (u,v) be added to the graph
\* that the tree tracks with the graph staying planar.
supportEdge(nn, g, u, v) == isPlanar(nn, newEdge(g, u, v))

\* ------------------------------------------------------------------ inputs
Min(a, b) == IF a < b THEN a ELSE b

\* Weight of the pair i < j in the generated matrix number s.
GenWeight(s, i, j) == ((s + 1) * (7 * i + 3 * j + i * j) + s * i * i) % WMod

\* A symmetric nn x nn matrix; the diagonal holds the largest value.
GenMatrix(nn, s) ==
    [i \in Nodes(nn) |-> [j \in Nodes(nn) |->
        IF i = j THEN WMod
        ELSE IF i < j THEN GenWeight(s, i, j) ELSE GenWeight(s, j, i)]]

\* The 4-node example, weights scaled by 100: w(0,1)=0.9, w(0,2)=0.8,
\* w(0,3)=0.1, w(1,2)=0.7, w(1,3)=0.6, w(2,3)=0.95.
ExampleUpper ==
    (<<0, 1>> :> 90) @@ (<<0, 2>> :> 80) @@ (<<0, 3>> :> 10) @@
    (<<1, 2>> :> 70) @@ (<<1, 3>> :> 60) @@ (<<2, 3>> :> 95)

ExampleMatrix ==
    [i \in Nodes(4) |-> [j \in Nodes(4) |->
        IF i = j THEN 100
        ELSE IF i < j THEN ExampleUpper[<<i, j>>] ELSE ExampleUpper[<<j, i>>]]]

Matrices(nn) ==
    {GenMatrix(nn, s) : s \in 0 .. MaxSeed} \cup (IF nn = 4 THEN {ExampleMatrix} ELSE {})

\* ------------------------------------------------- candidate edge lists
\* A scan of the whole row.
JStartZero(i) == 0

\* A scan that starts on the diagonal.
JStartDiagonal(i) == i

\* "for (int j = i + 1; j < n; j++)": the first column scanned in row i.
JStart(i) == i + 1

\* The inner loop: the candidates of row i from column j on.
RECURSIVE ExtractRow(_, _, _, _)
ExtractRow(m, nn, i, j) ==
    IF j >= nn THEN <<>>
    ELSE <<[i |-> i, j |-> j, weight |-> m[i][j]]>> \o ExtractRow(m, nn, i, j + 1)

\* The two nested loops that fill edges[] from the matrix, row by row.
RECURSIVE ExtractFrom(_, _, _)
ExtractFrom(m, nn, i) ==
    IF i >= nn THEN <<>>
    ELSE ExtractRow(m, nn, i, JStart(i)) \o ExtractFrom(m, nn, i + 1)

ExtractEdges(m, nn) == ExtractFrom(m, nn, 0)

\* "int total_edges = (n * (n - 1)) / 2"
total_edges(nn) == (nn * (nn - 1)) \div 2

\* compare_edges_desc: qsort's comparison function.
compare_edges_desc(a, b) ==
    IF a.weight < b.weight THEN 1
    ELSE IF a.weight > b.weight THEN -1
    ELSE 0

\* The comparison with its sense reversed: ascending weights.
EdgeLessAscending(a, b) == a.weight < b.weight

\* Edge::operator< of teste3.cpp: "return weight > other.weight".
EdgeLess(a, b) == a.weight > b.weight

\* std::tuple<double,int,int>::operator< (weight, u, v), lexicographic.
TupleLess(a, b) ==
    \/ a.weight < b.weight
    \/ (a.weight = b.weight /\ a.i < b.i)
    \/ (a.weight = b.weight /\ a.i = b.i /\ a.j < b.j)

\* Edge::operator< of part_001: "return weight < other.weight".
HeapLess(a, b) == a.weight < b.weight

\* a must come before b in the sorted array of the program b0.
\* std::sort(edges.rbegin(), edges.rend()) sorts the reversed range upwards,
\* so the array itself ends up in descending tuple order.
SortsBefore(b0, a, b) ==
    IF b0 = "teste3" THEN EdgeLess(a, b)
    ELSE IF b0 = "teste_cpp" THEN TupleLess(b, a)
    ELSE compare_edges_desc(a, b) < 0

\* The positions of list l, among those in P, that a sort may place next:
\* no other remaining element has to come before them. The order of
\* elements that compare equal is not specified by qsort and std::sort.
SortChoices(b0, l, P) ==
    {x \in P : \A y \in P : ~SortsBefore(b0, l[y], l[x])}

\* ------------------------------------------------------------------- state
VARIABLES
    builder,           \* the program that runs
    n,                 \* number of nodes
    proximity_matrix,  \* the input matrix
    input,             \* the candidate array before it is sorted
    pending,           \* positions of input the sort has not placed yet
    edges,             \* the sorted candidate array
    pc,                \* the position of the program
    k,                 \* iterations of the current loop done so far
    graph,             \* the edges of the graph, in insertion order
    added_edges,       \* added_edges / addedEdgeCount / edgesAdded
    node_connected,    \* create_pmfg_incremental: the per-node flag
    components,        \* create_pmfg_incremental: the component counter
    addedEdges,        \* PMFGGenerator: the set of normalized pairs added
    component,         \* teste.cpp: the component label of every node
    topEdges,          \* part_001: the priority queue of edges
    uf,                \* part_001: the union-find structure
    treeEdges,         \* the graph as it was when the tree phase ended
    other,             \* teste3.cpp: a second run of main on the same file
    file,              \* teste3.cpp: the data lines of the CSV edge list
    twin,              \* a run of the same builder on a matrix that differs
                       \* from proximity_matrix on the diagonal only
    script,            \* tmfg_script.R: the variables of the script
    stats,             \* the statistics a program has printed
    ice                \* index/ice.py: the matrices of the M-tilde computation

vars == <<builder, n, proximity_matrix, input, pending, edges, pc, k, graph,
          added_edges, node_connected, components, addedEdges, component, topEdges, uf, treeEdges, other,
          file, twin, script, stats, ice>>

Builders == {"create_pmfg", "spqr_only", "incremental", "teste3", "teste_cpp", "part_001"}

\* A budget that is one edge short.
max_edges_short(nn) == 3 * nn - 7

\* "int max_edges = 3 * n - 6" (part_000, teste3.cpp)
max_edges(nn) == 3 * nn - 6

\* "int max_edges = 3 * (n - 2)" (teste.c)
max_edges_c(nn) == 3 * (nn - 2)

\* The edge list handed to PMFGGenerator: the rows of the file in file order.
\* Here the upper triangle of the matrix, alone or followed by one row that
\* repeats the row at position d with its two nodes swapped.
Teste3Inputs(m, nn) ==
    LET base == ExtractEdges(m, nn)
    IN  {base} \cup
        {Append(base, [i |-> base[d].j, j |-> base[d].i, weight |-> base[d].weight]) :
            d \in 1 .. Min(Len(base), MaxDup)}

\* No run on a second matrix.
NoTwin == [pc |-> "none"]

\* tmfg_script.R is not the program that runs.
NoScript == [pc |-> "none"]

\* Nothing has been printed.
NoStats == [pc |-> "none"]

\* index/ice.py is not the program that runs.
NoIce == [pc |-> "none"]

\* One program about to run on one matrix.
InitRun ==
    /\ builder \in Builders
    /\ n \in 1 .. MaxN
    /\ proximity_matrix \in Matrices(n)
    /\ input \in (IF builder = "teste3" THEN Teste3Inputs(proximity_matrix, n)
                  ELSE IF builder = "part_001" THEN {ExtractEdges(proximity_matrix, n)}
                  ELSE {<<>>})
    /\ pending = (IF builder = "teste3" THEN DOMAIN input ELSE {})
    /\ edges = <<>>
    /\ pc = (IF builder = "teste3" THEN "sort"
             ELSE IF builder = "part_001" THEN "read"
             ELSE "extract")
    /\ k = 0
    /\ graph = <<>>
    /\ added_edges = 0
    /\ node_connected = [i \in Nodes(n) |-> FALSE]
    /\ components = n
    /\ addedEdges = {}
    /\ component = [i \in Nodes(n) |-> i]
    /\ topEdges = {}
    /\ uf = [i \in Nodes(n) |-> i]
    /\ treeEdges = <<>>
    /\ other = [pending |-> pending, edges |-> <<>>, pc |-> pc, k |-> 0,
                graph |-> <<>>, addedEdges |-> {}, count |-> 0]
    /\ file = <<>>
    /\ script = NoScript
    /\ stats = NoStats
    /\ ice = NoIce

Init == InitRun /\ twin = NoTwin

\* --------------------------------------------- candidate list and its sort
\* create_pmfg, create_pmfg_spqr_only, create_pmfg_incremental: step 1.
Extract ==
    /\ pc = "extract"
    /\ input' = ExtractEdges(proximity_matrix, n)
    /\ pending' = DOMAIN input'
    /\ pc' = "sort"
    /\ UNCHANGED <<script, stats, ice, file, twin, builder, n, proximity_matrix, edges, k, graph, added_edges,
                   node_connected, components, addedEdges, treeEdges,
                   component, topEdges, uf, other>>

\* qsort / std::sort, one placed element per step.
SortStep ==
    /\ pc = "sort"
    /\ pending # {}
    /\ \E x \in SortChoices(builder, input, pending) :
          /\ edges' = Append(edges, input[x])
          /\ pending' = pending \ {x}
    /\ UNCHANGED <<script, stats, ice, file, twin, builder, n, proximity_matrix, input, pc, k, graph, added_edges,
                   node_connected, components, addedEdges, treeEdges,
                   component, topEdges, uf, other>>

SortDone ==
    /\ pc = "sort"
    /\ pending = {}
    /\ pc' = (IF builder = "incremental" THEN "phase1" ELSE "scan")
    /\ UNCHANGED <<script, stats, ice, file, twin, builder, n, proximity_matrix, input, pending, edges, k, graph,
                   added_edges, node_connected, components, addedEdges, treeEdges,
                   component, topEdges, uf, other>>

\* ------------------------------------------------------ teste.c create_pmfg
\* A test that deletes the oldest edge of the graph instead of the one it
\* added.
is_planar_with_edge_first(nn, g, u, v) ==
    LET withEdge == newEdge(g, u, v)
    IN  [planar |-> isPlanar(nn, withEdge), G |-> delEdge(withEdge, 1)]

\* is_planar_with_edge: adds the edge, asks isPlanar, deletes the edge again.
is_planar_with_edge(nn, g, u, v) ==
    LET withEdge == newEdge(g, u, v)
    IN  [planar |-> isPlanar(nn, withEdge), G |-> delEdge(withEdge, Len(withEdge))]

CreatePmfgIter ==
    /\ builder = "create_pmfg"
    /\ pc = "scan"
    /\ k < Len(edges) /\ added_edges < max_edges_c(n)
    /\ LET e == edges[k + 1]
           r == is_planar_with_edge(n, graph, e.i, e.j)
       IN  IF r.planar
           THEN /\ graph' = newEdge(r.G, e.i, e.j)
                /\ added_edges' = added_edges + 1
           ELSE /\ graph' = r.G
                /\ added_edges' = added_edges
    /\ k' = k + 1
    /\ UNCHANGED <<script, stats, ice, file, twin, builder, n, proximity_matrix, input, pending, edges, pc,
                   node_connected, components, addedEdges, treeEdges,
                   component, topEdges, uf, other>>

CreatePmfgExit ==
    /\ builder = "create_pmfg"
    /\ pc = "scan"
    /\ ~(k < Len(edges) /\ added_edges < max_edges_c(n))
    /\ pc' = "done"
    /\ UNCHANGED <<script, stats, ice, file, twin, builder, n, proximity_matrix, input, pending, edges, k, graph,
                   added_edges, node_connected, components, addedEdges, treeEdges,
                   component, topEdges, uf, other>>

\* ------------------------------------------- part_000 create_pmfg_spqr_only
SpqrOnlyIter ==
    /\ builder = "spqr_only"
    /\ pc = "scan"
    /\ k < Len(edges) /\ added_edges < max_edges(n)
    /\ LET e == edges[k + 1]
       IN  IF supportEdge(n, graph, e.i, e.j)
           THEN /\ graph' = newEdge(graph, e.i, e.j)
                /\ added_edges' = added_edges + 1
           ELSE UNCHANGED <<graph, added_edges>>
    /\ k' = k + 1
    /\ UNCHANGED <<script, stats, ice, file, twin, builder, n, proximity_matrix, input, pending, edges, pc,
                   node_connected, components, addedEdges, treeEdges,
                   component, topEdges, uf, other>>

SpqrOnlyExit ==
    /\ builder = "spqr_only"
    /\ pc = "scan"
    /\ ~(k < Len(edges) /\ added_edges < max_edges(n))
    /\ pc' = "done"
    /\ UNCHANGED <<script, stats, ice, file, twin, builder, n, proximity_matrix, input, pending, edges, k, graph,
                   added_edges, node_connected, components, addedEdges, treeEdges,
                   component, topEdges, uf, other>>

\* ----------------------------------------- part_000 create_pmfg_incremental
\* A tree phase that admits every candidate.
Phase1AdmitsAll(nc, i, j) == TRUE

\* "if (!node_connected[i] || !node_connected[j])"
Phase1Admits(nc, i, j) == ~nc[i] \/ ~nc[j]

Phase1Iter ==
    /\ builder = "incremental"
    /\ pc = "phase1"
    /\ k < Len(edges) /\ components > 1
    /\ LET e == edges[k + 1]
           nc == [node_connected EXCEPT ![e.i] = TRUE, ![e.j] = TRUE]
       IN  IF Phase1Admits(node_connected, e.i, e.j)
           THEN /\ graph' = newEdge(graph, e.i, e.j)
                /\ node_connected' = nc
                \* both flags were set just above, so neither test is true
                /\ components' = components - (IF ~nc[e.i] THEN 1 ELSE 0)
                                            - (IF ~nc[e.j] THEN 1 ELSE 0)
                /\ added_edges' = added_edges + 1
           ELSE UNCHANGED <<graph, node_connected, components, added_edges>>
    /\ k' = k + 1
    /\ UNCHANGED <<script, stats, ice, file, twin, builder, n, proximity_matrix, input, pending, edges, pc,
                   addedEdges, treeEdges,
                   component, topEdges, uf, other>>

Phase1Exit ==
    /\ builder = "incremental"
    /\ pc = "phase1"
    /\ ~(k < Len(edges) /\ components > 1)
    /\ pc' = "phase2"
    /\ k' = 0
    /\ treeEdges' = graph
    /\ UNCHANGED <<script, stats, ice, file, twin, builder, n, proximity_matrix, input, pending, edges, graph,
                   added_edges, node_connected, components, addedEdges,
                   component, topEdges, uf, other>>

\* A phase 2 that inserts the candidate first and asks afterwards, and on a
\* refusal deletes the oldest edge of the graph instead of the one it added.
Phase2BodyTentative(nn, e, g, cnt) ==
    LET tentative == newEdge(g, e.i, e.j)
    IN  IF edgeExists(g, e.i, e.j)
        THEN [graph |-> g, count |-> cnt]
        ELSE IF isPlanar(nn, tentative)
        THEN [graph |-> tentative, count |-> cnt + 1]
        ELSE [graph |-> delEdge(tentative, 1), count |-> cnt]

\* The body of the phase 2 loop on candidate e: the new graph and count.
Phase2Body(nn, e, g, cnt) ==
    LET edge_exists == edgeExists(g, e.i, e.j)
    IN  IF ~edge_exists /\ supportEdge(nn, g, e.i, e.j)
        THEN [graph |-> newEdge(g, e.i, e.j), count |-> cnt + 1]
        ELSE [graph |-> g, count |-> cnt]

Phase2Iter ==
    /\ builder = "incremental"
    /\ pc = "phase2"
    /\ k < Len(edges) /\ added_edges < max_edges(n)
    /\ LET r == Phase2Body(n, edges[k + 1], graph, added_edges)
       IN  /\ graph' = r.graph
           /\ added_edges' = r.count
    /\ k' = k + 1
    /\ UNCHANGED <<script, stats, ice, file, twin, builder, n, proximity_matrix, input, pending, edges, pc,
                   node_connected, components, addedEdges, treeEdges,
                   component, topEdges, uf, other>>

Phase2Exit ==
    /\ builder = "incremental"
    /\ pc = "phase2"
    /\ ~(k < Len(edges) /\ added_edges < max_edges(n))
    /\ pc' = "done"
    /\ UNCHANGED <<script, stats, ice, file, twin, builder, n, proximity_matrix, input, pending, edges, k, graph,
                   added_edges, node_connected, components, addedEdges, treeEdges,
                   component, topEdges, uf, other>>

\* -------------------------------------- teste3.cpp PMFGGenerator::createPMFG
\* A key that keeps the orientation of the row.
normalizeEdgeOriented(src, tgt) == <<src, tgt>>

\* "return src < tgt ? make_pair(src, tgt) : make_pair(tgt, src)"
normalizeEdge(src, tgt) == IF src < tgt THEN <<src, tgt>> ELSE <<tgt, src>>

\* A validation that tests the upper end of the range only.
InvalidIndicesUpperOnly(nn, e) == e.i >= nn \/ e.j >= nn

\* "if (edge.source >= numNodes || edge.target >= numNodes ||
\*      edge.source < 0 || edge.target < 0) continue;"
InvalidIndices(nn, e) == e.i >= nn \/ e.j >= nn \/ e.i < 0 \/ e.j < 0

\* The candidate e passes the index validation and the duplicate check, so
\* the loop goes on to call supportEdge on it.
Teste3Queries(nn, e, ae) ==
    /\ ~InvalidIndices(nn, e)
    /\ normalizeEdge(e.i, e.j) \notin ae

\* A loop condition without the budget test.
Teste3ContinuesNoBudget(l, kk, cnt, nn) == kk < Len(l)

\* "for (k = 0; k < sortedEdges.size() && addedEdgeCount < maxEdges; ++k)"
Teste3Continues(l, kk, cnt, nn) == kk < Len(l) /\ cnt < max_edges(nn)

\* One iteration of the loop on candidate e: the new graph, set and count.
Teste3Body(nn, e, g, ae, cnt) ==
    IF InvalidIndices(nn, e)
    THEN [graph |-> g, addedEdges |-> ae, count |-> cnt]
    ELSE IF normalizeEdge(e.i, e.j) \in ae
    THEN [graph |-> g, addedEdges |-> ae, count |-> cnt]
    ELSE IF supportEdge(nn, g, e.i, e.j)
    THEN [graph |-> newEdge(g, e.i, e.j),
          addedEdges |-> ae \cup {normalizeEdge(e.i, e.j)},
          count |-> cnt + 1]
    ELSE [graph |-> g, addedEdges |-> ae, count |-> cnt]

Teste3Iter ==
    /\ builder = "teste3"
    /\ pc = "scan"
    /\ Teste3Continues(edges, k, added_edges, n)
    /\ \E r \in {Teste3Body(n, edges[k + 1], graph, addedEdges, added_edges)} :
           /\ graph' = r.graph
           /\ addedEdges' = r.addedEdges
           /\ added_edges' = r.count
    /\ k' = k + 1
    /\ UNCHANGED <<script, stats, ice, file, twin, builder, n, proximity_matrix, input, pending, edges, pc,
                   node_connected, components, treeEdges,
                   component, topEdges, uf, other>>

Teste3Exit ==
    /\ builder = "teste3"
    /\ pc = "scan"
    /\ ~Teste3Continues(edges, k, added_edges, n)
    /\ pc' = "done"
    /\ UNCHANGED <<script, stats, ice, file, twin, builder, n, proximity_matrix, input, pending, edges, k, graph,
                   added_edges, node_connected, components, addedEdges, treeEdges,
                   component, topEdges, uf, other>>

\* --------------------------------------------------- teste.cpp createPMFG
\* "spqrTree.originalGraph().numberOfNodes() == G.numberOfNodes()": the tree
\* is built on G itself, so both sides count the nodes of the same graph.
isPlanarByNodeCount(nn, g) == nn = nn

\* A relabelling of the node v alone.
mergeComponentsOnlyV(c, u, v) == [c EXCEPT ![v] = c[u]]

\* The relabelling loop: every node of v's component gets u's label.
mergeComponents(c, u, v) == [w \in DOMAIN c |-> IF c[w] = c[v] THEN c[u] ELSE c[w]]

TesteCppIter ==
    /\ builder = "teste_cpp"
    /\ pc = "scan"
    /\ k < Len(edges)
    /\ LET e == edges[k + 1]
           tentative == newEdge(graph, e.i, e.j)
       IN  IF component[e.i] # component[e.j]
           THEN IF isPlanarByNodeCount(n, tentative)
                THEN /\ graph' = tentative
                     /\ component' = mergeComponents(component, e.i, e.j)
                ELSE /\ graph' = delEdge(tentative, Len(tentative))
                     /\ component' = component
           ELSE UNCHANGED <<graph, component>>
    /\ k' = k + 1
    \* "if (G.numberOfEdges() >= 3 * n - 6) break"
    /\ pc' = (IF numberOfEdges(graph') >= 3 * n - 6 THEN "done" ELSE "scan")
    /\ UNCHANGED <<script, stats, ice, file, twin, builder, n, proximity_matrix, input, pending, edges, added_edges,
                   node_connected, components, addedEdges, topEdges, uf, treeEdges, other>>

TesteCppExit ==
    /\ builder = "teste_cpp"
    /\ pc = "scan"
    /\ ~(k < Len(edges))
    /\ pc' = "done"
    /\ UNCHANGED <<script, stats, ice, file, twin, builder, n, proximity_matrix, input, pending, edges, k, graph,
                   added_edges, node_connected, components, addedEdges, component,
                   topEdges, uf, treeEdges, other>>

\* ------------------------------------------------------------ part_001 main
\* "int maxEdges = 3 * (n - 2)"
maxEdges001(nn) == 3 * (nn - 2)

\* "int bufferSize = min(maxEdges * 10, 100000)"
bufferSize(nn) == Min(maxEdges001(nn) * BufferFactor, BufferCap)

\* priority_queue<Edge>::top(): an element no other element is above.
HeapTops(h) == {t \in h : \A o \in h : ~HeapLess(t, o)}

\* One cell of the upper triangle read from the file.
ReadEntry ==
    /\ builder = "part_001"
    /\ pc = "read"
    /\ k < Len(input)
    /\ LET edge == input[k + 1]
       IN  IF Cardinality(topEdges) < bufferSize(n)
           THEN /\ topEdges' = topEdges \cup {edge}
                /\ pc' = pc
           ELSE IF topEdges = {}
           THEN \* top() of an empty priority_queue is undefined: the program
                \* may stop, or compare with whatever the empty heap holds.
                \E outcome \in {"crash", "skip", "push"} :
                    /\ pc' = (IF outcome = "crash" THEN "crashed" ELSE pc)
                    /\ topEdges' = (IF outcome = "push" THEN {edge} ELSE topEdges)
           ELSE \E t \in HeapTops(topEdges) :
                    /\ topEdges' = (IF edge.weight > t.weight
                                    THEN (topEdges \ {t}) \cup {edge}
                                    ELSE topEdges)
                    /\ pc' = pc
    /\ k' = k + 1
    /\ UNCHANGED <<script, stats, ice, file, twin, builder, n, proximity_matrix, input, pending, edges, graph,
                   added_edges, node_connected, components, addedEdges, component,
                   uf, treeEdges, other>>

ReadDone ==
    /\ builder = "part_001"
    /\ pc = "read"
    /\ ~(k < Len(input))
    /\ pc' = "drain"
    /\ UNCHANGED <<script, stats, ice, file, twin, builder, n, proximity_matrix, input, pending, edges, k, graph,
                   added_edges, node_connected, components, addedEdges, component,
                   topEdges, uf, treeEdges, other>>

\* "edges.push_back(topEdges.top()); topEdges.pop();"
Drain ==
    /\ builder = "part_001"
    /\ pc = "drain"
    /\ topEdges # {}
    /\ \E t \in HeapTops(topEdges) :
          /\ edges' = Append(edges, t)
          /\ topEdges' = topEdges \ {t}
    /\ UNCHANGED <<script, stats, ice, file, twin, builder, n, proximity_matrix, input, pending, pc, k, graph,
                   added_edges, node_connected, components, addedEdges, component,
                   uf, treeEdges, other>>

Reverse(l) == [x \in 1 .. Len(l) |-> l[Len(l) + 1 - x]]

\* The heap is empty: "reverse(edges.begin(), edges.end())", then the graph
\* and its nodes are created.
DrainDone ==
    /\ builder = "part_001"
    /\ pc = "drain"
    /\ topEdges = {}
    /\ edges' = Reverse(edges)
    /\ pc' = "preload"
    /\ k' = 0
    /\ UNCHANGED <<script, stats, ice, file, twin, builder, n, proximity_matrix, input, pending, graph,
                   added_edges, node_connected, components, addedEdges, component,
                   topEdges, uf, treeEdges, other>>

\* "for (int i = 0; i < 5 && i < edges.size(); i++) graph.newEdge(...)"
Preload ==
    /\ builder = "part_001"
    /\ pc = "preload"
    /\ k < PreloadCount /\ k < Len(edges)
    /\ graph' = newEdge(graph, edges[k + 1].i, edges[k + 1].j)
    /\ k' = k + 1
    /\ UNCHANGED <<script, stats, ice, file, twin, builder, n, proximity_matrix, input, pending, edges, pc,
                   added_edges, node_connected, components, addedEdges, component,
                   topEdges, uf, treeEdges, other>>

\* "UnionFind uf(n); int edgesAdded = 0;"
PreloadDone ==
    /\ builder = "part_001"
    /\ pc = "preload"
    /\ ~(k < PreloadCount /\ k < Len(edges))
    /\ uf' = [i \in Nodes(n) |-> i]
    /\ added_edges' = 0
    /\ pc' = "tree"
    /\ k' = 0
    /\ UNCHANGED <<script, stats, ice, file, twin, builder, n, proximity_matrix, input, pending, edges, graph,
                   node_connected, components, addedEdges, component, topEdges,
                   treeEdges, other>>

\* UnionFind::find and UnionFind::unionBlocks over a representative map.
ufFind(f, x) == f[x]

unionBlocks(f, a, b) == [w \in DOMAIN f |-> IF f[w] = f[b] THEN f[a] ELSE f[w]]

TreeIter ==
    /\ builder = "part_001"
    /\ pc = "tree"
    /\ k < Len(edges) /\ added_edges < n - 1
    /\ LET e == edges[k + 1]
       IN  IF ufFind(uf, e.i) # ufFind(uf, e.j)
           THEN /\ graph' = newEdge(graph, e.i, e.j)
                /\ uf' = unionBlocks(uf, e.i, e.j)
                /\ added_edges' = added_edges + 1
           ELSE UNCHANGED <<graph, uf, added_edges>>
    /\ k' = k + 1
    /\ UNCHANGED <<script, stats, ice, file, twin, builder, n, proximity_matrix, input, pending, edges, pc,
                   node_connected, components, addedEdges, component, topEdges,
                   treeEdges, other>>

TreeDone ==
    /\ builder = "part_001"
    /\ pc = "tree"
    /\ ~(k < Len(edges) /\ added_edges < n - 1)
    /\ pc' = "saturate"
    /\ k' = 0
    /\ treeEdges' = graph
    /\ UNCHANGED <<script, stats, ice, file, twin, builder, n, proximity_matrix, input, pending, edges, graph,
                   added_edges, node_connected, components, addedEdges, component,
                   topEdges, uf, other>>

\* DynamicPlanarSPQRTree::checkInsertion(u, v)
checkInsertion(nn, g, u, v) == supportEdge(nn, g, u, v)

\* "for (i = 0; i < edges.size() && graph.numberOfEdges() < (3*n - 6); i++)"
SaturateIter ==
    /\ builder = "part_001"
    /\ pc = "saturate"
    /\ k < Len(edges) /\ numberOfEdges(graph) < 3 * n - 6
    /\ LET e == edges[k + 1]
           exists == edgeExists(graph, e.i, e.j)
       IN  IF ~exists /\ checkInsertion(n, graph, e.i, e.j)
           THEN graph' = newEdge(graph, e.i, e.j)
           ELSE graph' = graph
    /\ k' = k + 1
    /\ UNCHANGED <<script, stats, ice, file, twin, builder, n, proximity_matrix, input, pending, edges, pc,
                   added_edges, node_connected, components, addedEdges, component,
                   topEdges, uf, treeEdges, other>>

SaturateDone ==
    /\ builder = "part_001"
    /\ pc = "saturate"
    /\ ~(k < Len(edges) /\ numberOfEdges(graph) < 3 * n - 6)
    /\ pc' = "done"
    /\ UNCHANGED <<script, stats, ice, file, twin, builder, n, proximity_matrix, input, pending, edges, k, graph,
                   added_edges, node_connected, components, addedEdges, component,
                   topEdges, uf, treeEdges, other>>

\* ------------------------------------- teste3.cpp main, run a second time
\* The same steps as SortStep, SortDone, Teste3Iter and Teste3Exit, taken by
\* a second run of the program on the same input once the first has ended.
OtherSortStep ==
    /\ builder = "teste3" /\ pc = "done"
    /\ other.pc = "sort"
    /\ other.pending # {}
    /\ \E x \in SortChoices(builder, input, other.pending) :
          other' = [other EXCEPT !.edges = Append(@, input[x]), !.pending = @ \ {x}]
    /\ UNCHANGED <<script, stats, ice, file, twin, builder, n, proximity_matrix, input, pending, edges, pc, k, graph,
                   added_edges, node_connected, components, addedEdges, component,
                   topEdges, uf, treeEdges>>

OtherSortDone ==
    /\ builder = "teste3" /\ pc = "done"
    /\ other.pc = "sort"
    /\ other.pending = {}
    /\ other' = [other EXCEPT !.pc = "scan"]
    /\ UNCHANGED <<script, stats, ice, file, twin, builder, n, proximity_matrix, input, pending, edges, pc, k, graph,
                   added_edges, node_connected, components, addedEdges, component,
                   topEdges, uf, treeEdges>>

OtherIter ==
    /\ builder = "teste3" /\ pc = "done"
    /\ other.pc = "scan"
    /\ Teste3Continues(other.edges, other.k, other.count, n)
    /\ LET r == Teste3Body(n, other.edges[other.k + 1], other.graph,
                           other.addedEdges, other.count)
       IN  other' = [other EXCEPT !.graph = r.graph, !.addedEdges = r.addedEdges,
                                  !.count = r.count, !.k = @ + 1]
    /\ UNCHANGED <<script, stats, ice, file, twin, builder, n, proximity_matrix, input, pending, edges, pc, k, graph,
                   added_edges, node_connected, components, addedEdges, component,
                   topEdges, uf, treeEdges>>

OtherExit ==
    /\ builder = "teste3" /\ pc = "done"
    /\ other.pc = "scan"
    /\ ~Teste3Continues(other.edges, other.k, other.count, n)
    /\ other' = [other EXCEPT !.pc = "done"]
    /\ UNCHANGED <<script, stats, ice, file, twin, builder, n, proximity_matrix, input, pending, edges, pc, k, graph,
                   added_edges, node_connected, components, addedEdges, component,
                   topEdges, uf, treeEdges>>

\* ---------------------------- teste3.cpp CSVEdgeListReader::loadEdges, main
\* Largest matrix an edge-list file is written from.
MaxNFile == 4

\* A field of a data line: a decimal numeral or a word.
Num(x) == [text |-> "num", num |-> x]

Word(t) == [text |-> t, num |-> 0]

\* The value std::stod returns for "inf": above every finite weight of the
\* inputs. Its negation is the value of "-inf".
Infinity == 1000 + WMod

\* std::stoi throws on a field that is not a numeral.
stoiThrows(tok) == tok.text # "num"

stoi(tok) == tok.num

\* std::stod parses numerals, "inf" and "-inf", and throws on other words.
stodThrows(tok) == tok.text \notin {"num", "inf", "-inf"}

stod(tok) ==
    IF tok.text = "inf" THEN Infinity
    ELSE IF tok.text = "-inf" THEN -Infinity
    ELSE tok.num

\* A loader that keeps every parsed row.
LoadKeepsAll(source, target) == TRUE

\* "if (source != target)": self-loops are skipped during loading.
LoadKeeps(source, target) == source # target

Max(a, b) == IF a > b THEN a ELSE b

\* One data line handled by the loop of loadEdges: the edge vector l and
\* maxNodeId + 1 afterwards. A line with fewer than 3 fields, or one whose
\* fields make stoi or stod throw, changes nothing.
ParseLine(line, l, nn) ==
    IF /\ Len(line) >= 3
       /\ ~stoiThrows(line[1]) /\ ~stoiThrows(line[2]) /\ ~stodThrows(line[3])
       /\ LoadKeeps(stoi(line[1]), stoi(line[2]))
    THEN [edges |-> Append(l, [i |-> stoi(line[1]), j |-> stoi(line[2]),
                               weight |-> stod(line[3])]),
          numNodes |-> Max(nn, Max(stoi(line[1]), stoi(line[2])) + 1)]
    ELSE [edges |-> l, numNodes |-> nn]

\* The data line written for the candidate e.
LineOf(e) == <<Num(e.i), Num(e.j), Num(e.weight)>>

\* Lines a file may hold besides the upper triangle of its matrix: three
\* self-loops, rows with an infinite weight, a row whose weight is not a
\* number, a row of two fields and two rows with a negative node.
OddLines(nn) ==
    {<<Num(0), Num(0), Num(WMod)>>,
     <<Num(nn - 1), Num(nn - 1), Num(0)>>,
     <<Num(nn), Num(nn), Num(1)>>,
     <<Num(0), Num(1), Word("inf")>>,
     <<Num(0), Num(nn - 1), Word("-inf")>>,
     <<Num(0), Num(1), Word("abc")>>,
     <<Num(0), Num(1)>>,
     <<Num(-1), Num(0), Num(WMod)>>,
     <<Num(1), Num(-1), Num(20)>>}

InsertAt(l, pos, x) == SubSeq(l, 1, pos) \o <<x>> \o SubSeq(l, pos + 1, Len(l))

\* The files: the upper triangle of the matrix, one line per pair, alone or
\* with one odd line before or after it.
Files(m, nn) ==
    LET cand == ExtractEdges(m, nn)
        base == [x \in DOMAIN cand |-> LineOf(cand[x])]
    IN  {base} \cup {InsertAt(base, pos, o) : pos \in {0, Len(base)}, o \in OddLines(nn)}

\* "std::transform(..., ::tolower)" on the words a field may hold.
tolower(t) == IF t = "Source" THEN "source" ELSE t

\* isHeaderLine: the lowered line contains "source", "from", "node" or
\* "target". None of the other words of the files contains one of them.
isHeaderLine(line) ==
    \E f \in DOMAIN line : tolower(line[f].text) \in {"source", "from", "node", "target"}

\* The header line of an edge list.
HeaderLine == <<Word("Source"), Word("target"), Word("weight")>>

\* The files with and without a header line.
FilesWithHeader(m, nn) ==
    Files(m, nn) \cup {<<HeaderLine>> \o f : f \in Files(m, nn)}

\* main of teste3.cpp from the start: nothing is loaded and maxNodeId = -1.
InitFile ==
    /\ builder = "teste3"
    /\ n = 0
    /\ \E nn \in 1 .. MaxNFile :
          /\ proximity_matrix \in Matrices(nn)
          /\ file \in FilesWithHeader(proximity_matrix, nn)
    /\ input = <<>>
    /\ pending = {}
    /\ edges = <<>>
    /\ pc = "header"
    /\ k = 0
    /\ graph = <<>>
    /\ added_edges = 0
    /\ node_connected = [i \in Nodes(n) |-> FALSE]
    /\ components = n
    /\ addedEdges = {}
    /\ component = [i \in Nodes(n) |-> i]
    /\ topEdges = {}
    /\ uf = [i \in Nodes(n) |-> i]
    /\ treeEdges = <<>>
    /\ other = [pending |-> {}, edges |-> <<>>, pc |-> "sort", k |-> 0,
                graph |-> <<>>, addedEdges |-> {}, count |-> 0]
    /\ twin = NoTwin
    /\ script = NoScript
    /\ stats = NoStats
    /\ ice = NoIce

\* Lines 90-104 of loadEdges. The first getline reads line 1; when it is not
\* a header, "file.seekg(0)" goes back to the start. When it is a header,
\* "if (skipHeader && !std::getline(file, line))" reads one more line, and
\* the function returns false when there is none.
LoadHeader ==
    /\ builder = "teste3"
    /\ pc = "header"
    /\ IF Len(file) >= 1 /\ isHeaderLine(file[1])
       THEN IF Len(file) >= 2
            THEN pc' = "load" /\ k' = 2
            ELSE pc' = "load_failed" /\ k' = 1
       ELSE pc' = "load" /\ k' = 0
    /\ UNCHANGED <<script, stats, ice, file, twin, builder, n, proximity_matrix, input,
                   pending, edges, graph, added_edges, node_connected, components,
                   addedEdges, treeEdges, component, topEdges, uf, other>>

\* "while (std::getline(file, line))": one data line.
LoadRow ==
    /\ builder = "teste3"
    /\ pc = "load"
    /\ k < Len(file)
    /\ \E r \in {ParseLine(file[k + 1], input, n)} :
          /\ input' = r.edges
          /\ n' = r.numNodes
    /\ k' = k + 1
    /\ UNCHANGED <<script, stats, ice, file, twin, builder, proximity_matrix, pending, edges, pc, graph,
                   added_edges, node_connected, components, addedEdges, treeEdges,
                   component, topEdges, uf, other>>

\* End of file: "return !edges.empty()". main stops when nothing was loaded,
\* and otherwise copies the edges, sorts them and builds the generator.
LoadDone ==
    /\ builder = "teste3"
    /\ pc = "load"
    /\ ~(k < Len(file))
    /\ pc' = (IF input = <<>> THEN "load_failed" ELSE "sort")
    /\ pending' = DOMAIN input
    /\ k' = 0
    /\ UNCHANGED <<script, stats, ice, file, twin, builder, n, proximity_matrix, input, edges, graph,
                   added_edges, node_connected, components, addedEdges, treeEdges,
                   component, topEdges, uf, other>>

\* ------------- create_pmfg and create_pmfg_spqr_only on a second matrix
\* Largest number of nodes when a builder is called on two matrices.
MaxNTwin == 6

\* The matrix m with d in every diagonal entry.
WithDiagonal(m, d) ==
    [i \in DOMAIN m |-> [j \in DOMAIN m[i] |-> IF i = j THEN d ELSE m[i][j]]]

\* The diagonal values of the second matrix; those of the first are WMod, or
\* 100 in the example.
DiagonalValues == {0, WMod + 1}

\* The builder is called on proximity_matrix and then, in the same program,
\* on a matrix with another diagonal.
InitDiagonal ==
    /\ InitRun
    /\ builder \in {"create_pmfg", "spqr_only"}
    /\ n <= MaxNTwin
    /\ twin \in {[matrix |-> WithDiagonal(proximity_matrix, d), input |-> <<>>,
                   pending |-> {}, edges |-> <<>>, pc |-> "extract", k |-> 0,
                   graph |-> <<>>, added_edges |-> 0] : d \in DiagonalValues}

\* The second call: the extraction loops.
TwinExtract ==
    /\ builder \in {"create_pmfg", "spqr_only"} /\ pc = "done"
    /\ twin.pc = "extract"
    /\ \E l \in {ExtractEdges(twin.matrix, n)} :
          twin' = [twin EXCEPT !.input = l, !.pending = DOMAIN l, !.pc = "sort"]
    /\ UNCHANGED <<script, stats, ice, file, builder, n, proximity_matrix, input, pending, edges, pc, k,
                   graph, added_edges, node_connected, components, addedEdges,
                   component, topEdges, uf, treeEdges, other>>

\* The second call: qsort, one placed element per step. qsort is the same
\* function in both calls: given an array equal to the one of the first call
\* it leaves every element where it left it then.
TwinSortStep ==
    /\ builder \in {"create_pmfg", "spqr_only"} /\ pc = "done"
    /\ twin.pc = "sort"
    /\ twin.pending # {}
    /\ \E x \in SortChoices(builder, twin.input, twin.pending) :
          /\ twin.input = input => twin.input[x] = edges[Len(twin.edges) + 1]
          /\ twin' = [twin EXCEPT !.edges = Append(@, twin.input[x]),
                                  !.pending = @ \ {x}]
    /\ UNCHANGED <<script, stats, ice, file, builder, n, proximity_matrix, input, pending, edges, pc, k,
                   graph, added_edges, node_connected, components, addedEdges,
                   component, topEdges, uf, treeEdges, other>>

TwinSortDone ==
    /\ builder \in {"create_pmfg", "spqr_only"} /\ pc = "done"
    /\ twin.pc = "sort"
    /\ twin.pending = {}
    /\ twin' = [twin EXCEPT !.pc = "scan"]
    /\ UNCHANGED <<script, stats, ice, file, builder, n, proximity_matrix, input, pending, edges, pc, k,
                   graph, added_edges, node_connected, components, addedEdges,
                   component, topEdges, uf, treeEdges, other>>

\* The loop condition of the builder b.
TwinContinues(b, l, kk, cnt, nn) ==
    kk < Len(l) /\ cnt < (IF b = "create_pmfg" THEN max_edges_c(nn) ELSE max_edges(nn))

\* The loop body of the builder b on candidate e: the new graph and count.
TwinBody(b, nn, e, g, cnt) ==
    IF b = "create_pmfg"
    THEN LET r == is_planar_with_edge(nn, g, e.i, e.j)
         IN  IF r.planar
             THEN [graph |-> newEdge(r.G, e.i, e.j), count |-> cnt + 1]
             ELSE [graph |-> r.G, count |-> cnt]
    ELSE IF supportEdge(nn, g, e.i, e.j)
         THEN [graph |-> newEdge(g, e.i, e.j), count |-> cnt + 1]
         ELSE [graph |-> g, count |-> cnt]

TwinIter ==
    /\ builder \in {"create_pmfg", "spqr_only"} /\ pc = "done"
    /\ twin.pc = "scan"
    /\ TwinContinues(builder, twin.edges, twin.k, twin.added_edges, n)
    /\ \E r \in {TwinBody(builder, n, twin.edges[twin.k + 1], twin.graph,
                          twin.added_edges)} :
          twin' = [twin EXCEPT !.graph = r.graph, !.added_edges = r.count,
                               !.k = @ + 1]
    /\ UNCHANGED <<script, stats, ice, file, builder, n, proximity_matrix, input, pending, edges, pc, k,
                   graph, added_edges, node_connected, components, addedEdges,
                   component, topEdges, uf, treeEdges, other>>

TwinExit ==
    /\ builder \in {"create_pmfg", "spqr_only"} /\ pc = "done"
    /\ twin.pc = "scan"
    /\ ~TwinContinues(builder, twin.edges, twin.k, twin.added_edges, n)
    /\ twin' = [twin EXCEPT !.pc = "done"]
    /\ UNCHANGED <<script, stats, ice, file, builder, n, proximity_matrix, input, pending, edges, pc, k,
                   graph, added_edges, node_connected, components, addedEdges,
                   component, topEdges, uf, treeEdges, other>>

\* --------------------------------- part_002 read_csv_matrix, teste.c main
\* Largest number of lines of a matrix file.
MaxNCsv == 4

\* atof: the value of a numeral, the infinities, and 0 for any other word.
atof(tok) ==
    IF tok.text = "num" THEN tok.num
    ELSE IF tok.text = "inf" THEN Infinity
    ELSE IF tok.text = "-inf" THEN -Infinity
    ELSE 0

\* The line written for row i of the matrix m.
CsvLine(m, nn, i) == [j \in 1 .. nn |-> Num(m[i][j - 1])]

\* The matrix files: one line per row of the matrix, as written, or with the
\* last value of one line missing, or with one value too many on one line,
\* or with a word in the first cell; and the empty file.
CsvFiles(m, nn) ==
    LET base == [i \in 1 .. nn |-> CsvLine(m, nn, i - 1)]
    IN  {base, <<>>, [base EXCEPT ![1][1] = Word("abc")]}
        \cup {[base EXCEPT ![r] = SubSeq(@, 1, nn - 1)] : r \in 1 .. nn}
        \cup {[base EXCEPT ![r] = Append(@, Num(0))] : r \in 1 .. nn}

\* Values a cell of a malloc'ed row may hold before it is written.
Uninitialized == {-1, WMod + 1}

\* main of teste.c from the start: the file is there, nothing is read.
InitCsv ==
    /\ builder = "create_pmfg"
    /\ n = 0
    /\ \E nn \in 1 .. MaxNCsv : \E m \in Matrices(nn) : file \in CsvFiles(m, nn)
    /\ proximity_matrix = <<>>
    /\ input = <<>>
    /\ pending = {}
    /\ edges = <<>>
    /\ pc = "count"
    /\ k = 0
    /\ graph = <<>>
    /\ added_edges = 0
    /\ node_connected = [i \in Nodes(n) |-> FALSE]
    /\ components = n
    /\ addedEdges = {}
    /\ component = [i \in Nodes(n) |-> i]
    /\ topEdges = {}
    /\ uf = [i \in Nodes(n) |-> i]
    /\ treeEdges = <<>>
    /\ other = [pending |-> {}, edges |-> <<>>, pc |-> "count", k |-> 0,
                graph |-> <<>>, addedEdges |-> {}, count |-> 0]
    /\ twin = NoTwin
    /\ script = NoScript
    /\ stats = NoStats
    /\ ice = NoIce

\* "int n = count_lines(filename); if (n <= 0) return NULL;", then the rows
\* are allocated with malloc. main stops on NULL.
CountLines ==
    /\ builder = "create_pmfg"
    /\ pc = "count"
    /\ IF Len(file) <= 0
       THEN /\ pc' = "load_failed"
            /\ UNCHANGED <<n, proximity_matrix>>
       ELSE /\ pc' = "read_csv"
            /\ n' = Len(file)
            /\ \E g \in Uninitialized :
                  proximity_matrix' = [i \in Nodes(n') |-> [j \in Nodes(n') |-> g]]
    /\ UNCHANGED <<script, stats, ice, file, twin, input, pending, builder, edges, k, graph, added_edges,
                   node_connected, components, addedEdges, treeEdges,
                   component, topEdges, uf, other>>

\* One line of the file: "for (int j = 0; j < n && ptr; j++) matrix[i][j] =
\* atof(ptr)". Cells past the last value of the line are not written, values
\* past column n-1 are not read.
ReadCsvRow ==
    /\ builder = "create_pmfg"
    /\ pc = "read_csv"
    /\ k < n
    /\ proximity_matrix' =
          [proximity_matrix EXCEPT ![k] =
              [j \in Nodes(n) |-> IF j < Len(file[k + 1])
                                  THEN atof(file[k + 1][j + 1]) ELSE @[j]]]
    /\ k' = k + 1
    /\ UNCHANGED <<script, stats, ice, file, twin, input, pending, builder, n, edges, pc, graph, added_edges,
                   node_connected, components, addedEdges, treeEdges,
                   component, topEdges, uf, other>>

\* The matrix is returned and main calls create_pmfg on it.
ReadCsvDone ==
    /\ builder = "create_pmfg"
    /\ pc = "read_csv"
    /\ ~(k < n)
    /\ pc' = "extract"
    /\ k' = 0
    /\ UNCHANGED <<script, stats, ice, file, twin, input, pending, builder, n, proximity_matrix, edges, graph,
                   added_edges, node_connected, components, addedEdges, treeEdges,
                   component, topEdges, uf, other>>

\* ------------------------------------------------------------ tmfg_script.R
\* Largest number of rows of the TMFG result.
MaxNScript == 4

\* Quotients of doubles are kept exact, as a numerator and a denominator.
Rat(a, b) == [num |-> a, den |-> b]

\* x / y
RatDiv(x, y) == Rat(x.num * y.den, x.den * y.num)

\* x == y; a quotient by zero (NaN, Inf) equals nothing.
RatEq(x, y) == x.den # 0 /\ y.den # 0 /\ x.num * y.den = y.num * x.den

\* a:b of R: upwards when a <= b, downwards otherwise.
RColon(a, b) ==
    IF a <= b THEN [x \in 1 .. (b - a + 1) |-> a + x - 1]
    ELSE [x \in 1 .. (a - b + 1) |-> a - x + 1]

\* The sum of f[lo], ..., f[hi].
RECURSIVE SumOver(_, _, _)
SumOver(f, lo, hi) == IF lo > hi THEN 0 ELSE f[lo] + SumOver(f, lo + 1, hi)

\* rowSums(a)
rowSums(a) == [i \in DOMAIN a |-> SumOver(a[i], 1, Len(a[i]))]

\* sum(a)
sum(a) == SumOver(rowSums(a), 1, Len(a))

\* The results TMFG may return on nn nodes: the symmetric 0/1 matrices with
\* a zero diagonal, rows and columns numbered from 1.
AdjacencyMatrices(nn) ==
    {[i \in 1 .. nn |-> [j \in 1 .. nn |-> IF {i, j} \in E THEN 1 ELSE 0]] :
        E \in SUBSET {e \in SUBSET (1 .. nn) : Cardinality(e) = 2}}

\* "proximity_mat <- (proximity_mat + t(proximity_mat)) / 2" and
\* "diag(proximity_mat) <- 1", on the matrix m read from the file.
ProximityMat(m, nn) ==
    [i \in 1 .. nn |-> [j \in 1 .. nn |->
        IF i = j THEN 1 ELSE (m[i - 1][j - 1] + m[j - 1][i - 1]) \div 2]]

\* The script when TMFG has returned and the adjacency matrix is saved: the
\* edge list is empty and the outer loop is at its first value.
InitScript ==
    /\ builder = "tmfg_script"
    /\ n \in 1 .. MaxNScript
    /\ proximity_matrix = GenMatrix(n, 0)
    /\ input = <<>>
    /\ pending = {}
    /\ edges = <<>>
    /\ pc = "script"
    /\ k = 0
    /\ graph = <<>>
    /\ added_edges = 0
    /\ node_connected = [i \in Nodes(n) |-> FALSE]
    /\ components = n
    /\ addedEdges = {}
    /\ component = [i \in Nodes(n) |-> i]
    /\ topEdges = {}
    /\ uf = [i \in Nodes(n) |-> i]
    /\ treeEdges = <<>>
    /\ other = [pending |-> {}, edges |-> <<>>, pc |-> "script", k |-> 0,
                graph |-> <<>>, addedEdges |-> {}, count |-> 0]
    /\ file = <<>>
    /\ twin = NoTwin
    /\ script \in [pc : {"edge_list"},
                   tmfg_result : AdjacencyMatrices(n),
                   proximity_mat : {ProximityMat(proximity_matrix, n)},
                   ipos : {1}, jpos : {1},
                   edge_list : {<<>>},
                   read : {{}},
                   written : {<<>>}]
    /\ stats = NoStats
    /\ ice = NoIce

\* The script's state after the body has run for the current i and j: the
\* next j, the next i, or the end of the loops, where line 55 writes the
\* edge list.
ScriptAdvance(s, el, rd) ==
    LET nrow == Len(s.tmfg_result)
        iseq == RColon(1, nrow)
        jseq == RColon(iseq[s.ipos] + 1, nrow)
    IN  IF s.jpos < Len(jseq)
        THEN [s EXCEPT !.jpos = @ + 1, !.edge_list = el, !.read = rd]
        ELSE IF s.ipos < Len(iseq)
        THEN [s EXCEPT !.ipos = @ + 1, !.jpos = 1, !.edge_list = el, !.read = rd]
        ELSE [s EXCEPT !.pc = "statistics", !.edge_list = el, !.read = rd,
                       !.written = el]

\* "i < j && tmfg_result[i, j] == 1": the index pairs the condition reads.
ScriptReads(i, j) == IF i < j THEN {<<i, j>>} ELSE {}

\* One pass through the body of the two loops (lines 42-52). Reading a
\* matrix outside its bounds is an error ("subscript out of bounds").
ScriptLoopIter ==
    /\ builder = "tmfg_script"
    /\ script.pc = "edge_list"
    /\ LET nrow == Len(script.tmfg_result)
           i == RColon(1, nrow)[script.ipos]
           j == RColon(i + 1, nrow)[script.jpos]
           rd == script.read \cup ScriptReads(i, j)
       IN  IF ScriptReads(i, j) = {}
           THEN script' = ScriptAdvance(script, script.edge_list, rd)
           ELSE IF j > nrow
           THEN script' = [script EXCEPT !.pc = "error", !.read = rd]
           ELSE IF script.tmfg_result[i][j] = 1
           THEN script' = ScriptAdvance(script,
                    Append(script.edge_list,
                           [source |-> i, target |-> j,
                            weight |-> script.proximity_mat[i][j]]), rd)
           ELSE script' = ScriptAdvance(script, script.edge_list, rd)
    /\ UNCHANGED <<stats, ice, file, twin, builder, n, proximity_matrix, input, pending,
                   edges, pc, k, graph, added_edges, node_connected, components,
                   addedEdges, treeEdges, component, topEdges, uf, other>>

\* The error ends the for statement. Rscript and source() stop there; when
\* the statements are fed to the console one by one, R goes on with the next
\* one, line 55, which writes the edge list built so far.
ScriptError ==
    /\ builder = "tmfg_script"
    /\ script.pc = "error"
    /\ \/ script' = [script EXCEPT !.pc = "halted"]
       \/ script' = [script EXCEPT !.pc = "statistics", !.written = script.edge_list]
    /\ UNCHANGED <<stats, ice, file, twin, builder, n, proximity_matrix, input, pending,
                   edges, pc, k, graph, added_edges, node_connected, components,
                   addedEdges, treeEdges, component, topEdges, uf, other>>

\* "num_edges <- sum(tmfg_result)": the total without the division by 2.
numEdgesUndivided(a) == Rat(sum(a), 1)

\* "num_edges <- sum(tmfg_result) / 2"
numEdges(a) == Rat(sum(a), 2)

\* Lines 59-73: num_nodes, num_edges, density and the degree table.
ScriptStatistics ==
    /\ builder = "tmfg_script"
    /\ script.pc = "statistics"
    /\ LET num_nodes == Len(script.tmfg_result)
           num_edges == numEdges(script.tmfg_result)
       IN  stats' = [pc |-> "printed",
                     num_nodes |-> num_nodes,
                     num_edges |-> num_edges,
                     density |-> RatDiv(num_edges, Rat(num_nodes * (num_nodes - 1), 2)),
                     degrees |-> rowSums(script.tmfg_result)]
    /\ script' = [script EXCEPT !.pc = "done"]
    /\ UNCHANGED <<ice, file, twin, builder, n, proximity_matrix, input, pending,
                   edges, pc, k, graph, added_edges, node_connected, components,
                   addedEdges, treeEdges, component, topEdges, uf, other>>

\* --------------------------------------- teste3.cpp printPMFGStats, main
\* The numbers printPMFGStats prints for the graph g of nn nodes; the two
\* quotients are computed in double.
printPMFGStats(g, nn, totalNodes) ==
    [pc |-> "printed",
     numNodes |-> nn,
     numEdges |-> numberOfEdges(g),
     maxPlanarEdges |-> 3 * totalNodes - 6,
     utilization |-> Rat(numberOfEdges(g) * 100, 3 * totalNodes - 6),
     averageDegree |-> Rat(2 * numberOfEdges(g), nn)]

\* main: "PMFGGenerator::printPMFGStats(*pmfg, reader.getNumNodes())" after
\* createPMFG has returned.
PrintStats ==
    /\ builder = "teste3"
    /\ pc = "done"
    /\ stats = NoStats
    /\ stats' = printPMFGStats(graph, n, n)
    /\ UNCHANGED <<script, ice, file, twin, builder, n, proximity_matrix, input, pending,
                   edges, pc, k, graph, added_edges, node_connected, components,
                   addedEdges, treeEdges, component, topEdges, uf, other>>

\* ------------------------------- index/ice.py: the M-tilde matrix (doc 3.)
\* Largest numbers of locations (rows) and of industries (columns) of M.
MaxLocations == 3
MaxIndustries == 2

\* x + y and x * y on exact quotients.
RatAdd(x, y) == Rat(x.num * y.den + y.num * x.den, x.den * y.den)

RatMul(x, y) == Rat(x.num * y.num, x.den * y.den)

\* The sum of the quotients f[lo], ..., f[hi].
RECURSIVE RatSum(_, _, _)
RatSum(f, lo, hi) == IF lo > hi THEN Rat(0, 1) ELSE RatAdd(f[lo], RatSum(f, lo + 1, hi))

\* The binary location-by-industry matrices.
BinaryMatrices(np, ni) == [1 .. np -> [1 .. ni -> {0, 1}]]

\* "np.where(k == 0, 1, k)"
safe(kk) == [x \in DOMAIN kk |-> IF kk[x] = 0 THEN 1 ELSE kk[x]]

\* "M_np.sum(axis=1)": the row sums.
sum_axis1(M) == [p \in DOMAIN M |-> SumOver(M[p], 1, Len(M[p]))]

\* "M_np.sum(axis=0)": the column sums.
sum_axis0(M) ==
    [i \in DOMAIN M[1] |-> SumOver([p \in DOMAIN M |-> M[p][i]], 1, Len(M))]

\* "A @ B.T"
matmul_T(A, B) ==
    [p \in DOMAIN A |-> [q \in DOMAIN B |->
        RatSum([i \in DOMAIN A[p] |-> RatMul(A[p][i], B[q][i])], 1, Len(A[p]))]]

InitIce ==
    /\ builder = "ice"
    /\ n = 0
    /\ proximity_matrix = <<>>
    /\ input = <<>>
    /\ pending = {}
    /\ edges = <<>>
    /\ pc = "ice"
    /\ k = 0
    /\ graph = <<>>
    /\ added_edges = 0
    /\ node_connected = [i \in Nodes(n) |-> FALSE]
    /\ components = n
    /\ addedEdges = {}
    /\ component = [i \in Nodes(n) |-> i]
    /\ topEdges = {}
    /\ uf = [i \in Nodes(n) |-> i]
    /\ treeEdges = <<>>
    /\ other = [pending |-> {}, edges |-> <<>>, pc |-> "ice", k |-> 0,
                graph |-> <<>>, addedEdges |-> {}, count |-> 0]
    /\ file = <<>>
    /\ twin = NoTwin
    /\ script = NoScript
    /\ stats = NoStats
    /\ \E np \in 1 .. MaxLocations : \E ni \in 1 .. MaxIndustries :
          ice \in [pc : {"sums"}, M_np : BinaryMatrices(np, ni)]

\* k_p, k_i and their division-safe copies.
IceSums ==
    /\ builder = "ice"
    /\ ice.pc = "sums"
    /\ ice' = [pc |-> "normalize", M_np |-> ice.M_np,
               k_p_safe |-> safe(sum_axis1(ice.M_np)),
               k_i_safe |-> safe(sum_axis0(ice.M_np))]
    /\ UNCHANGED <<script, stats, file, twin, builder, n, proximity_matrix, input, pending,
                   edges, pc, k, graph, added_edges, node_connected, components,
                   addedEdges, treeEdges, component, topEdges, uf, other>>

\* "M_div_kp = M_np / k_p_safe.reshape(-1, 1)" and
\* "M_div_ki = M_np / k_i_safe.reshape(1, -1)"
IceNormalize ==
    /\ builder = "ice"
    /\ ice.pc = "normalize"
    /\ ice' = [pc |-> "multiply", M_np |-> ice.M_np,
               k_p_safe |-> ice.k_p_safe, k_i_safe |-> ice.k_i_safe,
               M_div_kp |-> [p \in DOMAIN ice.M_np |-> [i \in DOMAIN ice.M_np[p] |->
                                Rat(ice.M_np[p][i], ice.k_p_safe[p])]],
               M_div_ki |-> [p \in DOMAIN ice.M_np |-> [i \in DOMAIN ice.M_np[p] |->
                                Rat(ice.M_np[p][i], ice.k_i_safe[i])]]]
    /\ UNCHANGED <<script, stats, file, twin, builder, n, proximity_matrix, input, pending,
                   edges, pc, k, graph, added_edges, node_connected, components,
                   addedEdges, treeEdges, component, topEdges, uf, other>>

\* "M_tilde = M_div_kp @ M_div_ki.T"
IceMultiply ==
    /\ builder = "ice"
    /\ ice.pc = "multiply"
    /\ ice' = [pc |-> "done", M_np |-> ice.M_np,
               M_tilde |-> matmul_T(ice.M_div_kp, ice.M_div_ki)]
    /\ UNCHANGED <<script, stats, file, twin, builder, n, proximity_matrix, input, pending,
                   edges, pc, k, graph, added_edges, node_connected, components,
                   addedEdges, treeEdges, component, topEdges, uf, other>>

\* ------ create_pmfg_incremental, then create_pmfg_spqr_only, same matrix
\* Largest number of nodes when both builders of part_000 are called.
MaxNAgree == 6

\* main calls create_pmfg_incremental on the matrix and then
\* create_pmfg_spqr_only on the same matrix; twin holds the second call.
InitAgree ==
    /\ InitRun
    /\ builder = "incremental"
    /\ n <= MaxNAgree
    /\ twin = [matrix |-> proximity_matrix, input |-> <<>>, pending |-> {},
               edges |-> <<>>, pc |-> "extract", k |-> 0, graph |-> <<>>,
               added_edges |-> 0]

\* create_pmfg_spqr_only: the extraction loops.
PassExtract ==
    /\ builder = "incremental" /\ pc = "done"
    /\ twin.pc = "extract"
    /\ \E l \in {ExtractEdges(twin.matrix, n)} :
          twin' = [twin EXCEPT !.input = l, !.pending = DOMAIN l, !.pc = "sort"]
    /\ UNCHANGED <<script, stats, ice, file, builder, n, proximity_matrix, input, pending,
                   edges, pc, k, graph, added_edges, node_connected, components,
                   addedEdges, component, topEdges, uf, treeEdges, other>>

\* create_pmfg_spqr_only: qsort, one placed element per step; on an array
\* equal to the one of the first call it leaves every element where it left
\* it then.
PassSortStep ==
    /\ builder = "incremental" /\ pc = "done"
    /\ twin.pc = "sort"
    /\ twin.pending # {}
    /\ \E x \in SortChoices("spqr_only", twin.input, twin.pending) :
          /\ twin.input = input => twin.input[x] = edges[Len(twin.edges) + 1]
          /\ twin' = [twin EXCEPT !.edges = Append(@, twin.input[x]),
                                  !.pending = @ \ {x}]
    /\ UNCHANGED <<script, stats, ice, file, builder, n, proximity_matrix, input, pending,
                   edges, pc, k, graph, added_edges, node_connected, components,
                   addedEdges, component, topEdges, uf, treeEdges, other>>

PassSortDone ==
    /\ builder = "incremental" /\ pc = "done"
    /\ twin.pc = "sort"
    /\ twin.pending = {}
    /\ twin' = [twin EXCEPT !.pc = "scan"]
    /\ UNCHANGED <<script, stats, ice, file, builder, n, proximity_matrix, input, pending,
                   edges, pc, k, graph, added_edges, node_connected, components,
                   addedEdges, component, topEdges, uf, treeEdges, other>>

\* create_pmfg_spqr_only: one iteration of the loop of lines 63-95.
PassIter ==
    /\ builder = "incremental" /\ pc = "done"
    /\ twin.pc = "scan"
    /\ TwinContinues("spqr_only", twin.edges, twin.k, twin.added_edges, n)
    /\ \E r \in {TwinBody("spqr_only", n, twin.edges[twin.k + 1], twin.graph,
                          twin.added_edges)} :
          twin' = [twin EXCEPT !.graph = r.graph, !.added_edges = r.count,
                               !.k = @ + 1]
    /\ UNCHANGED <<script, stats, ice, file, builder, n, proximity_matrix, input, pending,
                   edges, pc, k, graph, added_edges, node_connected, components,
                   addedEdges, component, topEdges, uf, treeEdges, other>>

PassExit ==
    /\ builder = "incremental" /\ pc = "done"
    /\ twin.pc = "scan"
    /\ ~TwinContinues("spqr_only", twin.edges, twin.k, twin.added_edges, n)
    /\ twin' = [twin EXCEPT !.pc = "done"]
    /\ UNCHANGED <<script, stats, ice, file, builder, n, proximity_matrix, input, pending,
                   edges, pc, k, graph, added_edges, node_connected, components,
                   addedEdges, component, topEdges, uf, treeEdges, other>>

\* ------------------------------------------------------------ specification
Next ==
    \/ Extract
    \/ SortStep
    \/ SortDone
    \/ CreatePmfgIter
    \/ CreatePmfgExit
    \/ SpqrOnlyIter
    \/ SpqrOnlyExit
    \/ Phase1Iter
    \/ Phase1Exit
    \/ Phase2Iter
    \/ Phase2Exit
    \/ Teste3Iter
    \/ Teste3Exit
    \/ TesteCppIter
    \/ TesteCppExit
    \/ ReadEntry
    \/ ReadDone
    \/ Drain
    \/ DrainDone
    \/ Preload
    \/ PreloadDone
    \/ TreeIter
    \/ TreeDone
    \/ SaturateIter
    \/ SaturateDone

Spec == Init /\ [][Next]_vars

\* teste3.cpp alone: the sort of the loaded edges, then createPMFG. The loop
\* of createPMFG is sequential code, so a step that can be taken is taken.
InitTeste3 == Init /\ builder = "teste3"

NextTeste3 ==
    \/ SortStep
    \/ SortDone
    \/ Teste3Iter
    \/ Teste3Exit

SpecTeste3 == InitTeste3 /\ [][NextTeste3]_vars /\ WF_vars(NextTeste3)

\* teste3.cpp from the file on: loadEdges, the sort, createPMFG.
NextFile ==
    \/ LoadHeader
    \/ LoadRow
    \/ LoadDone
    \/ SortStep
    \/ SortDone
    \/ Teste3Iter
    \/ Teste3Exit

SpecFile == InitFile /\ [][NextFile]_vars

\* part_001 on a matrix with more upper-triangle entries than the buffer
\* holds: 59 nodes give 1711 entries and bufferSize = 1710. Only the scan of
\* the matrix is followed.
NTopK == 59

InitTopK ==
    /\ builder = "part_001"
    /\ n = NTopK
    /\ proximity_matrix = GenMatrix(n, 0)
    /\ input = ExtractEdges(proximity_matrix, n)
    /\ pending = {}
    /\ edges = <<>>
    /\ pc = "read"
    /\ k = 0
    /\ graph = <<>>
    /\ added_edges = 0
    /\ node_connected = [i \in Nodes(n) |-> FALSE]
    /\ components = n
    /\ addedEdges = {}
    /\ component = [i \in Nodes(n) |-> i]
    /\ topEdges = {}
    /\ uf = [i \in Nodes(n) |-> i]
    /\ treeEdges = <<>>
    /\ other = [pending |-> {}, edges |-> <<>>, pc |-> "read", k |-> 0,
                graph |-> <<>>, addedEdges |-> {}, count |-> 0]
    /\ file = <<>>
    /\ twin = NoTwin
    /\ script = NoScript
    /\ stats = NoStats
    /\ ice = NoIce

NextTopK ==
    \/ ReadEntry
    \/ ReadDone

SpecTopK == InitTopK /\ [][NextTopK]_vars

\* create_pmfg or create_pmfg_spqr_only called on two matrices that differ
\* on the diagonal only.
NextDiagonal ==
    \/ Extract
    \/ SortStep
    \/ SortDone
    \/ CreatePmfgIter
    \/ CreatePmfgExit
    \/ SpqrOnlyIter
    \/ SpqrOnlyExit
    \/ TwinExtract
    \/ TwinSortStep
    \/ TwinSortDone
    \/ TwinIter
    \/ TwinExit

SpecDiagonal == InitDiagonal /\ [][NextDiagonal]_vars

\* teste3.cpp run twice on the same edge list.
NextTwoRuns ==
    \/ SortStep
    \/ SortDone
    \/ Teste3Iter
    \/ Teste3Exit
    \/ OtherSortStep
    \/ OtherSortDone
    \/ OtherIter
    \/ OtherExit

InitTwoRuns == InitTeste3 /\ n <= MaxNTwoRuns

SpecTwoRuns == InitTwoRuns /\ [][NextTwoRuns]_vars

\* teste.c from the file on: read_csv_matrix, then create_pmfg.
NextCsv ==
    \/ CountLines
    \/ ReadCsvRow
    \/ ReadCsvDone
    \/ Extract
    \/ SortStep
    \/ SortDone
    \/ CreatePmfgIter
    \/ CreatePmfgExit

SpecCsv == InitCsv /\ [][NextCsv]_vars

\* The programs that print statistics: tmfg_script.R from the edge-list loop
\* on, and teste3.cpp from the sort to printPMFGStats.
InitStats == InitScript \/ InitTeste3

NextStats ==
    \/ ScriptLoopIter
    \/ ScriptError
    \/ ScriptStatistics
    \/ SortStep
    \/ SortDone
    \/ Teste3Iter
    \/ Teste3Exit
    \/ PrintStats

SpecStats == InitStats /\ [][NextStats]_vars

\* The M-tilde computation of index/ice.py on a binary matrix.
NextIce ==
    \/ IceSums
    \/ IceNormalize
    \/ IceMultiply

SpecIce == InitIce /\ [][NextIce]_vars

\* create_pmfg_incremental and create_pmfg_spqr_only on the same matrix.
NextAgree ==
    \/ Extract
    \/ SortStep
    \/ SortDone
    \/ Phase1Iter
    \/ Phase1Exit
    \/ Phase2Iter
    \/ Phase2Exit
    \/ PassExtract
    \/ PassSortStep
    \/ PassSortDone
    \/ PassIter
    \/ PassExit

SpecAgree == InitAgree /\ [][NextAgree]_vars

\* ------------------------------------------------------------------ claims
\* The pairs i < j that the graph does not hold yet.
AbsentPairs(nn, g) ==
    {p \in Nodes(nn) \X Nodes(nn) : p[1] < p[2] /\ ~edgeExists(g, p[1], p[2])}

\* The node pairs of a candidate list, in list order.
PairsOf(l) == [x \in DOMAIN l |-> <<l[x].i, l[x].j>>]

\* The candidate just examined was refused by the planarity query: it is in
\* range, distinct from every edge of the graph, and adding it is not planar.
LastRefused ==
    /\ k >= 1 /\ k <= Len(edges)
    /\ ~edgeExists(graph, edges[k].i, edges[k].j)
    /\ ~supportEdge(n, graph, edges[k].i, edges[k].j)

\* C1: for n >= 3 the graph of PMFGGenerator::createPMFG, of
\* create_pmfg_spqr_only and of create_pmfg_incremental (both phases) never
\* holds more than 3n-6 edges, in any state of the construction.
C1_EdgeBudget ==
    (n >= 3 /\ builder \in {"teste3", "spqr_only", "incremental"})
        => numberOfEdges(graph) <= 3 * n - 6

\* create_pmfg_incremental has returned with a full budget after its tree
\* phase added edges without any planarity query.
C1_Witness ==
    /\ builder = "incremental" /\ pc = "done" /\ n >= 5
    /\ Len(treeEdges) >= 3
    /\ numberOfEdges(graph) = 3 * n - 6

\* C2: the working graph of PMFGGenerator::createPMFG and of
\* create_pmfg_incremental is planar in every state, hence after every single
\* insertion of phase 1 and of phase 2.
C2_PlanarAfterEachInsertion ==
    builder \in {"teste3", "incremental"} => isPlanar(n, graph)

\* Phase 2 has just refused a candidate that would have broken planarity, with
\* budget left.
C2_Witness ==
    /\ builder = "incremental" /\ pc = "phase2"
    /\ LastRefused
    /\ added_edges < max_edges(n)
    /\ numberOfEdges(graph) > Len(treeEdges)

\* C4: when createPMFG (teste3.cpp) or create_pmfg_spqr_only has returned
\* after a complete candidate list of n >= 3 nodes, no absent pair can be
\* added to the final graph without making it non-planar.
C4_MaximalAtReturn ==
    (builder \in {"teste3", "spqr_only"} /\ pc = "done" /\ n >= 3)
        => \A p \in AbsentPairs(n, graph) : ~isPlanar(n, newEdge(graph, p[1], p[2]))

\* A run that refused candidates on the way and returned with pairs absent.
C4_Witness ==
    /\ builder = "spqr_only" /\ pc = "done" /\ n >= 6
    /\ k > added_edges
    /\ AbsentPairs(n, graph) # {}

ExampleOrder == <<<<2, 3>>, <<0, 1>>, <<0, 2>>, <<1, 2>>, <<1, 3>>, <<0, 3>>>>

\* C5: on the 4-node example the candidates are processed in the order
\* (2,3),(0,1),(0,2),(1,2),(1,3),(0,3) and createPMFG (teste3.cpp) and
\* create_pmfg_spqr_only accept all six: the result is K4 with 6 edges.
C5_ExampleK4 ==
    (/\ builder \in {"teste3", "spqr_only"}
     /\ proximity_matrix = ExampleMatrix
     /\ pc \in {"scan", "done"}
     /\ Len(edges) = 6)
        => /\ PairsOf(edges) = ExampleOrder
           /\ pc = "done" => /\ graph = ExampleOrder
                             /\ AbsentPairs(4, graph) = {}
                             /\ numberOfEdges(graph) = 6

C5_Witness ==
    /\ builder = "teste3" /\ proximity_matrix = ExampleMatrix
    /\ Len(edges) = 6 /\ pc = "done" /\ numberOfEdges(graph) = 6

\* C3: two runs of the teste3.cpp pipeline on the same edge list sort the
\* candidates into the same order and commit the same edges in the same
\* order, whatever the weights (ties included).
C3_SameOrderAndCommits ==
    (pc = "done" /\ other.pc \in {"scan", "done"})
        => /\ other.edges = edges
           /\ other.pc = "done" => other.graph = graph

\* The nodes reachable from the set S along the edges E.
RECURSIVE Grow(_, _)
Grow(E, S) ==
    LET T == S \cup {y \in UNION E : \E e \in E : y \in e /\ e \cap S # {}}
    IN  IF T = S THEN S ELSE Grow(E, T)

NumComponents(nn, g) == Cardinality({Grow(SimpleEdges(g), {v}) : v \in Nodes(nn)})

\* g is a spanning tree of the nn nodes: nn-1 edges, no cycle, one component.
IsSpanningTree(nn, g) ==
    /\ numberOfEdges(g) = nn - 1
    /\ Cardinality(SimpleEdges(g)) = nn - 1
    /\ NumComponents(nn, g) = 1

\* C6: phase 1 of create_pmfg_incremental on the complete candidate list of
\* n >= 2 nodes ends with a spanning tree (n-1 edges connecting all nodes); on
\* the 4-node example it admits exactly (2,3), (0,1), (0,2).
C6_TreePhaseSpanningTree ==
    (builder = "incremental" /\ pc \in {"phase2", "done"} /\ n >= 2)
        => /\ IsSpanningTree(n, treeEdges)
           /\ proximity_matrix = ExampleMatrix
                 => treeEdges = <<<<2, 3>>, <<0, 1>>, <<0, 2>>>>

\* C7: in create_pmfg_incremental and in part_001's main, every edge the
\* graph holds when the tree phase ends stays in the graph, at its place,
\* through the saturation phase and at the end.
C7_TreeEdgesKept ==
    (builder \in {"incremental", "part_001"} /\ pc \in {"phase2", "saturate", "done"})
        => /\ Len(treeEdges) <= Len(graph)
           /\ \A x \in DOMAIN treeEdges : graph[x] = treeEdges[x]

\* The saturation phase has refused a candidate and added edges on top of a
\* non-empty tree phase result.
C7_Witness ==
    /\ builder = "incremental" /\ pc = "done"
    /\ Len(treeEdges) >= 2
    /\ numberOfEdges(graph) > Len(treeEdges)
    /\ k > numberOfEdges(graph)

\* C8: the loop of PMFGGenerator::createPMFG terminates; every iteration moves
\* to the next candidate of the list, so each is examined at most once and in
\* list order; and the loop ends exactly when the committed edge count has
\* reached 3n-6 or every candidate has been examined.
C8_ScanTerminates ==
    /\ <>(pc = "done")
    /\ [][(pc = "scan" /\ pc' = "scan") => k' = k + 1]_vars
    /\ [][pc = "scan" =>
            ((pc' = "done") <=>
                (numberOfEdges(graph) >= 3 * n - 6 \/ k = Len(edges)))]_vars
    /\ [](pc = "done" => (numberOfEdges(graph) >= 3 * n - 6 \/ k = Len(edges)))

\* The loop has ended on the budget, with candidates left unexamined, after
\* skipping some candidate on the way.
C8_Witness ==
    /\ builder = "teste3" /\ pc = "done" /\ n >= 5
    /\ numberOfEdges(graph) = 3 * n - 6
    /\ k < Len(edges)
    /\ k > numberOfEdges(graph)

\* C9: for n = 1 and n = 2 the graph of create_pmfg, create_pmfg_spqr_only,
\* create_pmfg_incremental, createPMFG (teste.cpp) and
\* PMFGGenerator::createPMFG never holds more than n-1 edges, and the run
\* does not fail.
C9_DegenerateSizes ==
    (n < 3 /\ builder \in {"create_pmfg", "spqr_only", "incremental", "teste_cpp", "teste3"})
        => /\ numberOfEdges(graph) <= n - 1
           /\ pc \notin {"crashed", "failed"}

\* A 2-node run that has returned with its single edge.
C9_Witness ==
    /\ n = 2 /\ pc = "done" /\ builder \in {"incremental", "teste_cpp"}
    /\ numberOfEdges(graph) = 1

\* The step adds to the graph an edge whose pair the graph already holds.
AddsExistingPair ==
    /\ numberOfEdges(graph') = numberOfEdges(graph) + 1
    /\ edgeExists(graph, graph'[Len(graph')][1], graph'[Len(graph')][2])

\* C10: an attempt to add a pair that is already in the graph, in either
\* orientation, ends in a reported failure and never adds a parallel edge.
\* Stated for n >= 3, where every step of every program is defined.
C10_DuplicateAddReported == [][(n >= 3 /\ AddsExistingPair) => pc' = "failed"]_vars

\* C11: in PMFGGenerator::createPMFG, also on a list that repeats a pair as
\* (a,b) and later as (b,a), every unordered pair is committed at most once,
\* supportEdge is never called on a pair the graph already holds, and
\* addedEdges is the set of unordered pairs of the graph's edges.
C11_PairsCommittedOnce ==
    builder = "teste3" =>
        /\ {{p[1], p[2]} : p \in addedEdges} = SimpleEdges(graph)
        /\ Cardinality(addedEdges) = numberOfEdges(graph)
        /\ Cardinality(SimpleEdges(graph)) = numberOfEdges(graph)
        /\ (/\ pc = "scan"
            /\ Teste3Continues(edges, k, added_edges, n)
            /\ Teste3Queries(n, edges[k + 1], addedEdges))
               => ~edgeExists(graph, edges[k + 1].i, edges[k + 1].j)

\* The row that repeats a pair with its nodes swapped has just been skipped,
\* with budget left, because the pair was committed from the earlier row.
C11_Witness ==
    /\ builder = "teste3" /\ pc = "scan" /\ n >= 3
    /\ k >= 2 /\ k <= Len(edges)
    /\ edges[k].i > edges[k].j
    /\ <<edges[k].j, edges[k].i>> \in addedEdges
    /\ \A x \in DOMAIN graph : graph[x] # <<edges[k].i, edges[k].j>>
    /\ added_edges < max_edges(n)

\* A data line of the file that names the same node twice.
SelfLoopLines ==
    {x \in DOMAIN file :
        /\ Len(file[x]) >= 3
        /\ ~stoiThrows(file[x][1]) /\ ~stoiThrows(file[x][2])
        /\ stoi(file[x][1]) = stoi(file[x][2])}

\* C12: in a run of teste3.cpp no self-loop reaches supportEdge or the graph:
\* the loaded edge list holds none, createPMFG never goes on to a query with
\* source = target, and no edge of the graph joins a node to itself.
C12_NoSelfLoopReachesOracle ==
    builder = "teste3" =>
        /\ \A x \in DOMAIN input : input[x].i # input[x].j
        /\ \A x \in DOMAIN graph : graph[x][1] # graph[x][2]
        /\ (/\ pc = "scan"
            /\ Teste3Continues(edges, k, added_edges, n)
            /\ Teste3Queries(n, edges[k + 1], addedEdges))
               => edges[k + 1].i # edges[k + 1].j

\* A file with a self-loop line on one of its nodes has been loaded and
\* createPMFG has returned a graph with edges.
C12_Witness ==
    /\ builder = "teste3" /\ pc = "done"
    /\ \E x \in SelfLoopLines : stoi(file[x][1]) < n
    /\ Len(input) >= 3
    /\ numberOfEdges(graph) >= 3

\* C13: in part_001's main the graph never joins an unordered pair of nodes
\* by two edges, through the preload, the tree phase and the saturation
\* loop. Stated for n >= 3, where every step of the program is defined.
C13_NoDuplicateEdges ==
    (builder = "part_001" /\ n >= 3)
        => Cardinality(SimpleEdges(graph)) = numberOfEdges(graph)

\* C14: in part_001's main, for n >= 3, graph.numberOfEdges() never exceeds
\* 3n-6, the preloaded, tree-phase and saturation-phase edges counted
\* together.
C14_Part001EdgeBudget ==
    (builder = "part_001" /\ n >= 3) => numberOfEdges(graph) <= 3 * n - 6

C16_DrainedDescending ==
    (builder = "part_001" /\ n >= 3 /\ pc \in {"preload", "tree", "saturate", "done"})
        => \A x \in 1 .. (Len(edges) - 1) : edges[x].weight >= edges[x + 1].weight

\* C17: in part_001's main with bufferSize >= 1, topEdges never holds more
\* than bufferSize edges, and after the scan of the matrix it holds
\* min(bufferSize, m) of the m entries read, none of them lighter than an
\* entry left out (so it is a set of highest-weight entries, ties at the
\* cut-off weight being free).
C17_TopKSelection ==
    (builder = "part_001" /\ bufferSize(n) >= 1) =>
        /\ Cardinality(topEdges) <= bufferSize(n)
        /\ (pc = "drain" /\ edges = <<>>) =>
              /\ Cardinality(topEdges) = Min(bufferSize(n), Len(input))
              /\ \A e \in topEdges : \A x \in DOMAIN input :
                    input[x] \notin topEdges => e.weight >= input[x].weight

\* std::isfinite
isfinite(w) == -Infinity < w /\ w < Infinity

\* The data lines that name two distinct nodes and a finite weight.
FiniteLines ==
    {x \in DOMAIN file :
        /\ Len(file[x]) >= 3
        /\ ~stoiThrows(file[x][1]) /\ ~stoiThrows(file[x][2]) /\ ~stodThrows(file[x][3])
        /\ stoi(file[x][1]) # stoi(file[x][2])
        /\ isfinite(stod(file[x][3]))}

\* C18: every edge loadEdges has loaded has a finite weight: a row whose
\* weight field parses to an infinity is left out, and the rows after it are
\* still loaded, so that at the end the edges are the rows with two distinct
\* nodes and a finite weight (counted on the files without a header line).
C18_LoadedWeightsFinite ==
    builder = "teste3" =>
        /\ \A x \in DOMAIN input : isfinite(input[x].weight)
        /\ (pc \notin {"header", "load"} /\ ~(file # <<>> /\ isHeaderLine(file[1])))
              => Len(input) = Cardinality(FiniteLines)

\* C19: is_planar_with_edge is a pure query: called on the candidate that
\* create_pmfg is about to test (its two nodes in either order), and called
\* for all nodes u, v on the graph create_pmfg returns, the graph it leaves
\* has the edges it had before the call, whether the answer is planar or not;
\* so an iteration of create_pmfg leaves the graph alone on a refusal and adds
\* exactly the candidate on an acceptance.
C19_TestIsPureQuery ==
    /\ [](builder = "create_pmfg" /\ pc = "scan" /\ k < Len(edges) =>
            \A p \in {<<edges[k + 1].i, edges[k + 1].j>>,
                      <<edges[k + 1].j, edges[k + 1].i>>} :
                is_planar_with_edge(n, graph, p[1], p[2]).G = graph)
    /\ [](builder = "create_pmfg" /\ pc = "done" =>
            \A u \in Nodes(n) : \A v \in Nodes(n) :
                is_planar_with_edge(n, graph, u, v).G = graph)
    /\ [][(builder = "create_pmfg" /\ pc = "scan" /\ k' = k + 1) =>
            IF is_planar_with_edge(n, graph, edges[k + 1].i, edges[k + 1].j).planar
            THEN graph' = newEdge(graph, edges[k + 1].i, edges[k + 1].j)
            ELSE graph' = graph]_vars

\* create_pmfg has just had a candidate answered "not planar", on a graph
\* that holds edges, with budget left.
C19_Witness ==
    /\ builder = "create_pmfg" /\ pc = "scan"
    /\ LastRefused
    /\ ~is_planar_with_edge(n, graph, edges[k].i, edges[k].j).planar
    /\ numberOfEdges(graph) >= 9
    /\ added_edges < max_edges_c(n)

\* C20: create_pmfg and create_pmfg_spqr_only ignore the diagonal: called on
\* a matrix that differs from proximity_matrix on the diagonal only, they
\* build the same candidate list, and with it the same sorted list and the
\* same sequence of committed edges.
C20_DiagonalIgnored ==
    (builder \in {"create_pmfg", "spqr_only"} /\ pc = "done" /\ twin.pc # "none") =>
        /\ twin.pc # "extract" => twin.input = input
        /\ (twin.pc = "sort" /\ twin.pending # {}) =>
              \E x \in SortChoices(builder, twin.input, twin.pending) :
                  twin.input[x] = edges[Len(twin.edges) + 1]
        /\ twin.pc \in {"scan", "done"} => twin.edges = edges
        /\ twin.pc = "done" => /\ twin.graph = graph
                               /\ twin.added_edges = added_edges

\* Both calls have returned, on matrices with different diagonals, after
\* refusing a candidate.
C20_Witness ==
    /\ builder \in {"create_pmfg", "spqr_only"} /\ pc = "done"
    /\ twin.pc = "done"
    /\ \E i \in Nodes(n) : twin.matrix[i][i] # proximity_matrix[i][i]
    /\ n >= 6
    /\ twin.k > numberOfEdges(twin.graph)
    /\ numberOfEdges(twin.graph) >= 9

\* Some line of the matrix file does not hold as many values as the file has
\* lines.
NonSquare == \E r \in DOMAIN file : Len(file[r]) # Len(file)

\* The cells read_csv_matrix leaves unwritten.
UnwrittenCells ==
    {c \in Nodes(Len(file)) \X Nodes(Len(file)) : c[2] >= Len(file[c[1] + 1])}

\* C21: a matrix file with a line that does not hold exactly as many values
\* as the file has lines is rejected: main of teste.c never gets past the
\* reader to create_pmfg, and no candidate takes its weight from a cell the
\* reader left unwritten.
C21_NonSquareRejected ==
    (builder = "create_pmfg" /\ file # <<>>) =>
        /\ NonSquare => pc \in {"count", "read_csv", "load_failed"}
        /\ \A x \in DOMAIN input :
              <<input[x].i, input[x].j>> \notin UnwrittenCells

\* C22: for n >= 3, createPMFG of teste.cpp builds a Planar Maximally
\* Filtered Graph: the candidates are in descending weight order, the graph
\* is planar all along, and on return it holds 3n-6 edges and no absent pair
\* can be added to it without making it non-planar.
C22_TesteCppBuildsPmfg ==
    (builder = "teste_cpp" /\ n >= 3 /\ pc \in {"scan", "done"}) =>
        /\ \A x \in DOMAIN edges : \A y \in DOMAIN edges :
              x < y => edges[x].weight >= edges[y].weight
        /\ isPlanar(n, graph)
        /\ pc = "done" =>
              /\ numberOfEdges(graph) = 3 * n - 6
              /\ \A p \in AbsentPairs(n, graph) :
                    ~isPlanar(n, newEdge(graph, p[1], p[2]))

\* The pairs i < j that the adjacency matrix a marks as edges.
EdgesOf(a) ==
    {p \in (1 .. Len(a)) \X (1 .. Len(a)) : p[1] < p[2] /\ a[p[1]][p[2]] = 1}

\* The number of edge ends at node v in the graph g.
Degree(g, v) ==
    Cardinality({x \in DOMAIN g : g[x][1] = v}) + Cardinality({x \in DOMAIN g : g[x][2] = v})

\* C23: the statistics tmfg_script.R prints for a symmetric 0/1 adjacency
\* matrix with zero diagonal are consistent: the edge count is the number of
\* edges, each degree is the number of edges at the node, the degrees sum to
\* twice the edge count, and for n >= 2 the density is the edge count over
\* n(n-1)/2. The average degree printPMFGStats prints is the sum of the
\* degrees of the graph over its number of nodes, 2 x edges / nodes.
C23_StatisticsConsistent ==
    /\ (builder = "tmfg_script" /\ stats.pc = "printed") =>
          LET a == script.tmfg_result
          IN  /\ RatEq(stats.num_edges, Rat(Cardinality(EdgesOf(a)), 1))
              /\ \A v \in DOMAIN a :
                    stats.degrees[v] = Cardinality({p \in EdgesOf(a) : v \in {p[1], p[2]}})
              /\ RatEq(Rat(SumOver(stats.degrees, 1, Len(a)), 1),
                       Rat(2 * stats.num_edges.num, stats.num_edges.den))
              /\ stats.num_nodes >= 2 =>
                    RatEq(stats.density,
                          Rat(2 * Cardinality(EdgesOf(a)),
                              stats.num_nodes * (stats.num_nodes - 1)))
    /\ (builder = "teste3" /\ stats.pc = "printed") =>
          RatEq(stats.averageDegree,
                Rat(SumOver([v \in 1 .. n |-> Degree(graph, v - 1)], 1, n), n))

\* The script has printed the statistics of a graph of 4 nodes whose nodes
\* have different degrees.
C23_Witness ==
    /\ builder = "tmfg_script" /\ stats.pc = "printed"
    /\ stats.num_nodes = 4
    /\ stats.degrees[1] = 3 /\ stats.degrees[2] = 1

\* C24: for every binary location-by-industry matrix M, the matrix M-tilde
\* computed as (M / k_p) times the transpose of (M / k_i) is symmetric:
\* M-tilde[p][p'] = M-tilde[p'][p] for all locations p, p'.
C24_MTildeSymmetric ==
    (builder = "ice" /\ ice.pc = "done") =>
        \A p \in DOMAIN ice.M_tilde : \A q \in DOMAIN ice.M_tilde :
            RatEq(ice.M_tilde[p][q], ice.M_tilde[q][p])

\* The lines of the file after its header line, or all of them when the
\* first line is not a header.
DataLines == IF file # <<>> /\ isHeaderLine(file[1]) THEN Tail(file) ELSE file

\* A line "source,target,weight" of two distinct node numbers and a decimal
\* weight.
WellFormed(line) ==
    /\ Len(line) >= 3
    /\ line[1].text = "num" /\ line[2].text = "num" /\ line[3].text = "num"
    /\ line[1].num # line[2].num

FiniteWeight(e) == isfinite(e.weight)

\* C25: when the first line of the file is a header, loadEdges skips that
\* line and no other; every well-formed line 'source,target,weight' with
\* source != target after it becomes an edge, in file order. A first line
\* that is not a header is processed as data.
C25_HeaderSkippedOnce ==
    (builder = "teste3" /\ pc \notin {"header", "load"}) =>
        LET wf == SelectSeq(DataLines, WellFormed)
        IN  SelectSeq(input, FiniteWeight) =
                [x \in DOMAIN wf |-> [i |-> wf[x][1].num, j |-> wf[x][2].num,
                                      weight |-> wf[x][3].num]]

\* C26: for n >= 2 the edge-list loop of tmfg_script.R reads the adjacency
\* matrix only at index pairs 1 <= i < j <= n, and the edge list written has
\* exactly one row (source, target, proximity weight) per upper-triangle
\* entry equal to 1.
C26_EdgeListExport ==
    (builder = "tmfg_script" /\ n >= 2) =>
        /\ \A p \in script.read : 1 <= p[1] /\ p[1] < p[2] /\ p[2] <= n
        /\ script.pc \notin {"error", "halted"}
        /\ script.pc \in {"statistics", "done"} =>
              /\ Len(script.written) = Cardinality(EdgesOf(script.tmfg_result))
              /\ {script.written[x] : x \in DOMAIN script.written} =
                    {[source |-> p[1], target |-> p[2],
                      weight |-> script.proximity_mat[p[1]][p[2]]] :
                        p \in EdgesOf(script.tmfg_result)}

\* C27: in PMFGGenerator::createPMFG a candidate with an endpoint outside
\* 0..numNodes-1 is skipped: the loop does not go on to the planarity query
\* with it, and the iteration leaves the graph, addedEdges and addedEdgeCount
\* as they were.
C27_OutOfRangeSkipped ==
    /\ []((/\ builder = "teste3" /\ pc = "scan"
           /\ Teste3Continues(edges, k, added_edges, n)
           /\ \E v \in {edges[k + 1].i, edges[k + 1].j} : v < 0 \/ v >= n)
          => ~Teste3Queries(n, edges[k + 1], addedEdges))
    /\ [][(/\ builder = "teste3" /\ pc = "scan" /\ k' = k + 1
           /\ \E v \in {edges[k + 1].i, edges[k + 1].j} : v < 0 \/ v >= n)
          => /\ graph' = graph
             /\ addedEdges' = addedEdges
             /\ added_edges' = added_edges]_vars

\* createPMFG has just skipped a candidate with a negative node, on a graph
\* that holds edges already, with budget left.
C27_Witness ==
    /\ builder = "teste3" /\ pc = "scan"
    /\ k >= 2 /\ k <= Len(edges)
    /\ edges[k].j < 0
    /\ numberOfEdges(graph) >= 1
    /\ added_edges < max_edges(n)

\* C28: in createPMFG of teste.cpp the component labels track connectivity
\* exactly: after every iteration component[u] = component[v] if and only if
\* u and v are connected in G; every edge kept has joined two different
\* connected components, so G is a forest all along.
C28_ComponentsTrackConnectivity ==
    /\ []((builder = "teste_cpp" /\ pc \in {"scan", "done"}) =>
          /\ \A u \in Nodes(n) : \A v \in Nodes(n) :
                (component[u] = component[v]) <=> (v \in Grow(SimpleEdges(graph), {u}))
          /\ Cardinality(SimpleEdges(graph)) = numberOfEdges(graph)
          /\ numberOfEdges(graph) = n - NumComponents(n, graph))
    /\ [][(builder = "teste_cpp" /\ pc = "scan" /\ graph' # graph) =>
             /\ graph' = newEdge(graph, edges[k + 1].i, edges[k + 1].j)
             /\ edges[k + 1].j \notin Grow(SimpleEdges(graph), {edges[k + 1].i})]_vars

\* createPMFG has passed over a candidate whose nodes were connected
\* already, and the graph holds several edges on 5 or more nodes.
C28_Witness ==
    /\ builder = "teste_cpp" /\ pc = "scan"
    /\ n >= 5
    /\ numberOfEdges(graph) >= 3
    /\ k > numberOfEdges(graph)
    /\ NumComponents(n, graph) >= 2

\* The weights of the candidates are pairwise distinct.
DistinctWeights ==
    \A x \in DOMAIN input : \A y \in DOMAIN input :
        x # y => input[x].weight # input[y].weight

\* C29: for n >= 3 and a matrix with pairwise distinct weights,
\* create_pmfg_incremental (phase 1, then phase 2) and create_pmfg_spqr_only
\* (one descending pass) return graphs with the same edge set.
C29_TwoPhaseAgreesWithSinglePass ==
    (/\ builder = "incremental" /\ pc = "done" /\ twin.pc = "done"
     /\ n >= 3 /\ DistinctWeights)
        => /\ SimpleEdges(graph) = SimpleEdges(twin.graph)
           /\ numberOfEdges(graph) = numberOfEdges(twin.graph)

\* Both builders have returned on a matrix of distinct weights where the
\* single pass refused a candidate and phase 1 admitted an edge ahead of a
\* heavier one, so that the two graphs were built in different orders.
C29_Witness ==
    /\ builder = "incremental" /\ pc = "done" /\ twin.pc = "done"
    /\ n >= 5 /\ DistinctWeights
    /\ twin.k > twin.added_edges
    /\ graph # twin.graph

\* C30: in the matrix scan of part_001's main, topEdges.top() is never
\* evaluated on an empty heap: whenever an entry is handled, the heap has
\* room for it or holds an element, and the scan never ends in a crash.
C30_TopNeverOnEmptyHeap ==
    /\ [][(builder = "part_001" /\ pc = "read" /\ k' = k + 1)
            => (Cardinality(topEdges) < bufferSize(n) \/ topEdges # {})]_vars
    /\ [](builder = "part_001" => pc # "crashed")

====
